---------------------------- MODULE Spec2Model ----------------------------
(***************************************************************************)
(* Model of the memory retrieval engine of src/src/python/voice_server.py: *)
(* the /api/search handler (search_memories), the local CoreML fast path   *)
(* (_perform_local_coreml_search), the remote SDK fallback, the bounded    *)
(* search history (deque(maxlen=30)) and the /api/search-history handler.  *)
(*                                                                         *)
(* Also modelled: the readiness wait (_wait_for_coreml_pipeline), the      *)
(* handlers as steps of concurrent request threads, and the frame          *)
(* processor PaprMemoryService of src/src/python/pipecat_server.py.        *)
(*                                                                         *)
(* Similarities and distances are integers in hundredths: a distance of    *)
(* 0.05 is 5 and the similarity 1.0 - 0.05 is 100 - 5 = 95. Durations are  *)
(* integers in hundredths of a millisecond; the 'note' of a latency        *)
(* breakdown tells the path taken.                                         *)
(***************************************************************************)
EXTENDS Integers, Sequences, FiniteSets, TLC

VARIABLES
    papr_client,      \* TRUE iff the module global papr_client is not None
    local_embedder,   \* TRUE iff the cached embedder handle is not None
    local_collection, \* TRUE iff the cached (tier0) collection handle is not None
    search_history,   \* the deque(maxlen=30) of search entries
    now,              \* int(time.time() * 1000), the millisecond clock
    request,          \* JSON body of the last request handled
    response,         \* response of the last request handled
    calls,            \* calls the last request made to embedder, collections, SDK
    seen,             \* what those calls returned to the handler
    completed,        \* history variable: every entry ever appended, in order
    handled,          \* history variable: the number of search requests of Spec
    wait,             \* one call of _wait_for_coreml_pipeline and the SDK it polls
    workers,          \* the request threads of the server, each at a point of its handler
    pipe              \* the frames PaprMemoryService received and pushed

vars == <<papr_client, local_embedder, local_collection, search_history, now,
          request, response, calls, seen, completed, handled, wait, workers, pipe>>

-----------------------------------------------------------------------------
(* Bounds of the model *)

MaxSearches == 1        \* search requests per behaviour of Spec
MaxHistSearches == 32   \* successful searches per behaviour of SpecHistory
MaxClock == 1           \* the clock runs from 0 to MaxClock
MaxLimit == 3           \* max_memories ranges over 1..MaxLimit
MaxTimeout == 3         \* timeout of the readiness wait ranges over 0..MaxTimeout
MaxInterval == 2        \* its poll interval ranges over 0..MaxInterval
MaxFrames == 2          \* frames per behaviour of SpecFrames

(* Program constants *)

HistoryMaxLen == 30     \* deque(maxlen=30)
PreviewLen == 3         \* memories[:3] of the history entry
NoDistance == -1        \* a distance of None in the collection's answer

None == "<None>"        \* Python's None where a string is expected
NoContentPlaceholder == "(No content)"
LocalNote == "Local CoreML fast path"
SdkNote == "SDK search path (estimated embed/search split)"

-----------------------------------------------------------------------------
(* Sequence helpers *)

Min(a, b) == IF a <= b THEN a ELSE b

\* s[:n] for n >= 0
Take(s, n) == SubSeq(s, 1, Min(n, Len(s)))

\* the last n elements of s
LastN(s, n) == IF Len(s) <= n THEN s ELSE SubSeq(s, Len(s) - n + 1, Len(s))


-----------------------------------------------------------------------------
(* What the external capabilities can answer *)

\* one row of a collection's answer: ids[i], documents[i], metadatas[i]
\* (its "content" and "similarity_score" keys) and distances[i]
Cand(id, doc, meta_content, dist, rel) ==
    [id |-> id, document |-> doc, content |-> meta_content,
     distance |-> dist, similarity_score |-> rel]

Tier0Example ==
    << Cand("g1", "goal one", None, 10, 0), Cand("g2", "goal two", None, 20, 0),
       Cand("g3", "goal three", None, 30, 0), Cand("g4", "goal four", None, 40, 0),
       Cand("g5", "goal five", None, 50, 0) >>

Tier1Example ==
    << Cand("m1", "memory one", None, 5, 0), Cand("m2", "memory two", None, 15, 0),
       Cand("m3", "memory three", None, 25, 0), Cand("m4", "memory four", None, 35, 0),
       Cand("m5", "memory five", None, 45, 0) >>

\* an answer that is not ordered, with a missing document, a document found
\* in the metadata only and a distance above 1.0
Tier0Mixed ==
    << Cand("g6", None, None, 40, 0), Cand("g7", "goal seven", None, 20, 60),
       Cand("g8", "", "goal eight", 150, 0) >>

\* an answer with a similarity that ties with Tier0Mixed and a missing distance
Tier1Mixed ==
    << Cand("m6", "memory six", None, 20, 90), Cand("m7", "memory seven", None, NoDistance, 0) >>

Tier0Answers == { <<>>, Tier0Example, Tier0Mixed }
Tier1Answers == { <<>>, Tier1Example, Tier1Mixed }

\* one memory of the SDK's search response: content, pydantic_extra__
\* (present or not, with its similarity_score), score, metadata similarity_score
RMem(id, content, has_extra, extra_similarity, score, rel) ==
    [id |-> id, content |-> content, has_extra |-> has_extra,
     extra_similarity |-> extra_similarity, score |-> score,
     similarity_score |-> rel]

RemoteAnswers ==
    { <<>>,
      << RMem("r1", "remote one", TRUE, 85, 0, 75) >>,
      << RMem("r2", "None", FALSE, 0, 50, 0), RMem("r3", "remote three", TRUE, 90, 0, 0) >> }

\* the outcome of one external call: it raises, or it answers with items
Raises == [kind |-> "raise", items |-> <<>>]
Answers(items) == [kind |-> "ok", items |-> items]
\* papr_client.memory has no _chroma_tier1_collection, or it is None
Absent == [kind |-> "absent", items |-> <<>>]
\* the SDK answers with a response whose data is None
NoData == [kind |-> "nodata", items |-> <<>>]
\* papr_client.memory holds a tier1 collection, which is not queried
Idle == [kind |-> "idle", items |-> <<>>]
\* the call was not made
NotCalled == [kind |-> "notcalled", items |-> <<>>]

-----------------------------------------------------------------------------
(* _perform_local_coreml_search *)

\* doc or metadata.get("content") or "(No content)"
Falsy(str) == str \in {None, ""}

LocalContent(c) ==
    IF ~Falsy(c.document) THEN c.document
    ELSE IF ~Falsy(c.content) THEN c.content
    ELSE NoContentPlaceholder

\* 1.0 - dists[idx] if dists[idx] is not None else 0.0
QuerySimilarity(dist) == IF dist # NoDistance THEN 100 - dist ELSE 0

TierLabel(tier) == IF tier = 0 THEN "goals/okrs" ELSE "memories"

\* the dict appended to all_memories for one row of a tier's answer; 'score'
\* and 'similarity_score' repeat query_similarity, and tags, topics,
\* custom_metadata and metadata are copied from the row unchanged
LocalMemory(c, tier) ==
    [content |-> LocalContent(c),
     query_similarity |-> QuerySimilarity(c.distance),
     relevance_score |-> c.similarity_score,
     id |-> c.id,
     tier |-> tier,
     tier_label |-> TierLabel(tier)]

TierMemories(items, tier) == [i \in 1..Len(items) |-> LocalMemory(items[i], tier)]

\* a try block that searches one tier and swallows its exception; raised is
\* whether an exception leaves the block
TierQueryUncaught(enabled, outcome, tier) ==
    IF ~enabled
    THEN [raised |-> FALSE, called |-> 0, memories |-> <<>>]
    ELSE IF outcome.kind = "raise"
    THEN [raised |-> TRUE, called |-> 1, memories |-> <<>>]
    ELSE [raised |-> FALSE, called |-> 1, memories |-> TierMemories(outcome.items, tier)]

TierQuery(enabled, outcome, tier) ==
    IF ~enabled
    THEN [raised |-> FALSE, called |-> 0, memories |-> <<>>]
    ELSE IF outcome.kind = "raise"
    THEN [raised |-> FALSE, called |-> 1, memories |-> <<>>]
    ELSE [raised |-> FALSE, called |-> 1, memories |-> TierMemories(outcome.items, tier)]

\* a sort that is not stable: m goes before the elements with its key
RECURSIVE InsertDescBeforeTies(_, _)
InsertDescBeforeTies(m, sorted) ==
    IF sorted = <<>> THEN <<m>>
    ELSE IF Head(sorted).query_similarity > m.query_similarity
         THEN <<Head(sorted)>> \o InsertDescBeforeTies(m, Tail(sorted))
         ELSE <<m>> \o sorted

\* list.sort(key=query_similarity, reverse=True): a stable sort, elements
\* with equal keys keep their order. InsertDesc puts m after every element
\* whose key is at least m's key.
RECURSIVE InsertDesc(_, _)
InsertDesc(m, sorted) ==
    IF sorted = <<>> THEN <<m>>
    ELSE IF Head(sorted).query_similarity >= m.query_similarity
         THEN <<Head(sorted)>> \o InsertDesc(m, Tail(sorted))
         ELSE <<m>> \o sorted

RECURSIVE SortFrom(_, _)
SortFrom(sorted, rest) ==
    IF rest = <<>> THEN sorted
    ELSE SortFrom(InsertDesc(Head(rest), sorted), Tail(rest))

SortAscending(ms) ==
    LET d == SortFrom(<<>>, ms) IN [i \in 1..Len(d) |-> d[Len(d) + 1 - i]]

SortBySimilarityDesc(ms) == SortFrom(<<>>, ms)

\* round(x, 1) of a duration x >= 0 in hundredths of a millisecond: the
\* nearest tenth, a tie going to the even tenth
Round1(x) ==
    LET q == x \div 10
        r == x % 10
    IN  IF r < 5 THEN 10 * q
        ELSE IF r > 5 THEN 10 * (q + 1)
        ELSE IF q % 2 = 0 THEN 10 * q ELSE 10 * (q + 1)

\* latency_breakdown of the local path: embed_ms and total_chroma_ms, the
\* sum of the durations of the tier queries that returned
LocalLatencyBreakdown(embed_ms, total_chroma_ms) ==
    [total_ms |-> Round1(embed_ms + total_chroma_ms),
     sdk_processing_ms |-> Round1(embed_ms + total_chroma_ms),
     embedding_generation_ms |-> Round1(embed_ms),
     chromadb_search_ms |-> Round1(total_chroma_ms),
     processing_overhead_ms |-> 0,
     note |-> LocalNote]

\* local_embedder.encode([query])[0]: the embedding that the call-th call of
\* the embedder within one search returns
Encode(query, call) == [text |-> query, call |-> call]

\* a tier query that embeds the query again
TierEmbeddingFresh(embedding, query, tier) == Encode(query, tier + 2)

\* query_embeddings=[embedding] of a tier query
TierEmbedding(embedding, query, tier) == embedding

\* the whole function; e is what the embedder and the collections do on this
\* call and how long they take. raised: an exception leaves the function.
PerformLocalCoremlSearch(query, max_memories, search_tier0, search_tier1, e) ==
    LET embed_called == local_embedder
        embed_raised == ~local_embedder \/ e.embedder_raises
        t0 == TierQuery(search_tier0 /\ local_collection, e.tier0, 0)
        t1 == TierQuery(search_tier1 /\ e.tier1.kind # "absent", e.tier1, 1)
        all_memories == t0.memories \o t1.memories
        final_memories == Take(SortBySimilarityDesc(all_memories), max_memories)
        total_chroma_ms ==
            (IF t0.called = 1 /\ e.tier0.kind = "ok" THEN e.timing.tier0_ms ELSE 0)
            + (IF t1.called = 1 /\ e.tier1.kind = "ok" THEN e.timing.tier1_ms ELSE 0)
        breakdown == LocalLatencyBreakdown(e.timing.embed_ms, total_chroma_ms)
        embedding == Encode(query, 1)
        tier_embeddings ==
            (IF t0.called = 1 THEN <<TierEmbedding(embedding, query, 0)>> ELSE <<>>)
            \o (IF t1.called = 1 THEN <<TierEmbedding(embedding, query, 1)>> ELSE <<>>)
    IN  IF embed_raised
        THEN [raised |-> TRUE, memories |-> <<>>,
              latency_breakdown |-> breakdown,
              embed_calls |-> IF embed_called THEN 1 ELSE 0,
              embedder_seen |-> IF embed_called THEN "raise" ELSE "notcalled",
              tier0_calls |-> 0, tier1_calls |-> 0,
              tier0_seen |-> NotCalled, tier1_seen |-> NotCalled,
              embedded |-> <<>>, tier_embeddings |-> <<>>]
        ELSE [raised |-> t0.raised \/ t1.raised,
              memories |-> final_memories,
              latency_breakdown |-> breakdown,
              embed_calls |-> 1,
              embedder_seen |-> "ok",
              tier0_calls |-> t0.called, tier1_calls |-> t1.called,
              tier0_seen |-> IF t0.called = 1 THEN e.tier0 ELSE NotCalled,
              tier1_seen |-> IF t1.called = 1 \/ e.tier1.kind = "absent"
                             THEN e.tier1 ELSE NotCalled,
              embedded |-> <<embedding>>, tier_embeddings |-> tier_embeddings]

-----------------------------------------------------------------------------
(* _wait_for_coreml_pipeline(client, timeout, interval) *)

\* Before the call. t is time.time() in seconds since the call; collection
\* and embedder tell whether client.memory._chroma_collection and
\* client.memory._local_embedder are set; read is what the last poll read;
\* status_raised and fetch_raised tell what has failed so far; in_time
\* tells whether collection and embedder were both set at a time before
\* end_time.
WaitNotCalled ==
    [pc |-> "idle", client |-> FALSE, timeout |-> 0, interval |-> 0, t |-> 0,
     end_time |-> 0, has_status |-> FALSE, can_fetch |-> FALSE,
     collection |-> FALSE, embedder |-> FALSE,
     read |-> [collection |-> FALSE, embedder |-> FALSE, complete |-> FALSE],
     status_raised |-> FALSE, fetch_raised |-> FALSE, in_time |-> FALSE,
     result |-> FALSE]

Timeouts == 0..MaxTimeout
Intervals == 0..MaxInterval

\* get_status(): it raises, or its dict says complete or not
StatusOutcomes == {"raise", "complete", "incomplete"}
\* client.memory._get_local_embedder(): it raises, returns None or an embedder
FetchOutcomes == {"raise", "none", "embedder"}

\* a wait that returns as soon as a collection or an embedder is there
PipelineReadyEither(collection_ready, embedder_ready, status_complete) ==
    collection_ready \/ embedder_ready

\* if collection_ready and (embedder_ready or status_complete): return True
PipelineReady(collection_ready, embedder_ready, status_complete) ==
    collection_ready /\ (embedder_ready \/ status_complete)

\* the call: without a client it returns False, else end_time is computed
WaitCall ==
    /\ wait.pc = "idle"
    /\ \E client \in BOOLEAN, timeout \in Timeouts, interval \in Intervals,
          has_status \in BOOLEAN, can_fetch \in BOOLEAN,
          collection \in BOOLEAN, embedder \in BOOLEAN :
          wait' = [wait EXCEPT
                      !.pc = IF client THEN "test" ELSE "done",
                      !.client = client, !.timeout = timeout, !.interval = interval,
                      !.end_time = timeout,
                      !.has_status = has_status, !.can_fetch = can_fetch,
                      !.collection = client /\ collection,
                      !.embedder = client /\ embedder,
                      !.in_time = client /\ collection /\ embedder /\ 0 < timeout]
    /\ UNCHANGED <<papr_client, local_embedder, local_collection, search_history, now,
                   request, response, calls, seen, completed, handled, workers, pipe>>

\* while time.time() < end_time: ... else return False
WaitTest ==
    /\ wait.pc = "test"
    /\ wait' = [wait EXCEPT !.pc = IF wait.t < wait.end_time THEN "poll" ELSE "done"]
    /\ UNCHANGED <<papr_client, local_embedder, local_collection, search_history, now,
                   request, response, calls, seen, completed, handled, workers, pipe>>

\* the body of the loop up to time.sleep: read the two attributes and the
\* status, return True if ready, else fetch the embedder when the
\* collection is there and the embedder is not
WaitPoll ==
    /\ wait.pc = "poll"
    /\ \E status \in StatusOutcomes, fetch \in FetchOutcomes :
          LET collection_ready == wait.collection
              embedder_ready == wait.embedder
              status_complete == wait.has_status /\ status = "complete"
              status_raised == wait.has_status /\ status = "raise"
              read == [collection |-> collection_ready, embedder |-> embedder_ready,
                       complete |-> status_complete]
              fetches == collection_ready /\ ~embedder_ready /\ wait.can_fetch
          IN  IF PipelineReady(collection_ready, embedder_ready, status_complete)
              THEN wait' = [wait EXCEPT !.pc = "done", !.result = TRUE, !.read = read,
                               !.status_raised = @ \/ status_raised]
              ELSE wait' = [wait EXCEPT
                               !.pc = "sleep", !.read = read,
                               !.status_raised = @ \/ status_raised,
                               !.fetch_raised = @ \/ (fetches /\ fetch = "raise"),
                               !.embedder = @ \/ (fetches /\ fetch = "embedder"),
                               !.in_time = @ \/ (/\ fetches /\ fetch = "embedder"
                                                  /\ wait.t < wait.end_time)]
    /\ UNCHANGED <<papr_client, local_embedder, local_collection, search_history, now,
                   request, response, calls, seen, completed, handled, workers, pipe>>

\* time.sleep(interval): it lasts interval seconds, or a second more
WaitSleep ==
    /\ wait.pc = "sleep"
    /\ \E late \in {0, 1} :
          wait' = [wait EXCEPT !.pc = "test", !.t = wait.t + wait.interval + late]
    /\ UNCHANGED <<papr_client, local_embedder, local_collection, search_history, now,
                   request, response, calls, seen, completed, handled, workers, pipe>>

\* the background initialisation of the SDK sets the collection or the
\* embedder while the wait is running
SdkProgress ==
    /\ wait.pc \in {"test", "poll", "sleep"}
    /\ \E attr \in {"collection", "embedder"} :
          /\ ~wait[attr]
          /\ wait' = [wait EXCEPT
                          ![attr] = TRUE,
                          !.in_time = @ \/ (/\ wait.t < wait.end_time
                                             /\ (attr = "collection" => wait.embedder)
                                             /\ (attr = "embedder" => wait.collection))]
    /\ UNCHANGED <<papr_client, local_embedder, local_collection, search_history, now,
                   request, response, calls, seen, completed, handled, workers, pipe>>

\* the steps of the thread that runs the wait
WaitStep == WaitTest \/ WaitPoll \/ WaitSleep

\* a sleep during which the clock advances
TimePasses == WaitSleep /\ wait'.t > wait.t

-----------------------------------------------------------------------------
(* The request threads and the frame processor at rest *)

\* "a" serves a client that keeps sending requests, "b" a client that sends
\* one search request or reads the history
Workers == {"a", "b"}

\* a thread that handles no request. data and out are the body of its
\* request and the result of its handler so far, snapshot is the
\* list(search_history) of a history read, recorded tells how many entries
\* the thread has appended, and served whether it has begun a search.
WorkerIdle ==
    [pc |-> "idle", served |-> FALSE, recorded |-> 0, data |-> <<>>, out |-> <<>>,
     snapshot |-> <<>>]

\* no frame received yet; search and store are the outcomes of the last
\* frame's memory search and message storage
PipeEmpty == [received |-> <<>>, pushed |-> <<>>, search |-> "none", store |-> "none"]

-----------------------------------------------------------------------------
(* search_memories, the handler of POST /api/search *)

\* SearchMemoryToolParams: query is a str with min_length=1. A body without
\* "query" is read as query = '' by data.get('query', '').
ValidQueryAny(q) == TRUE

ValidQuery(q) == q \notin {None, ""}

\* content.strip().lower() on the strings of the model
StripLower(c) ==
    CASE c \in {"", "  "} -> ""
      [] c \in {"None", "none", " NONE "} -> "none"
      [] OTHER -> c

\* content is None or content.strip() == '' or content.strip().lower() == 'none'
RemoteContent(c) ==
    IF c = None \/ StripLower(c) = "" \/ StripLower(c) = "none" THEN None ELSE c

\* the dict appended to memories for one memory of the SDK's response: it
\* has no 'tier' and no 'tier_label' key
RemoteMemory(m) ==
    [content |-> RemoteContent(m.content),
     query_similarity |-> IF m.has_extra THEN m.extra_similarity ELSE m.score,
     relevance_score |-> m.similarity_score,
     id |-> m.id]

\* if response and response.data and response.data.memories: for mem in ...
RemoteExtractUnchecked(outcome) ==
    IF outcome.kind = "nodata"
    THEN [raised |-> TRUE, memories |-> <<>>]
    ELSE [raised |-> FALSE,
          memories |-> [i \in 1..Len(outcome.items) |-> RemoteMemory(outcome.items[i])]]

RemoteExtract(outcome) ==
    [raised |-> FALSE,
     memories |-> [i \in 1..Len(outcome.items) |-> RemoteMemory(outcome.items[i])]]

\* use_fast_path after the try/except around the local search: the except
\* clause sets it to False
UseFastPathKept(use_fast_path, local_raised) == use_fast_path

\* the SDK branch runs after every local search
UseFastPathDropped(use_fast_path, local_raised) == FALSE

UseFastPathAfterLocal(use_fast_path, local_raised) == use_fast_path /\ ~local_raised

\* latency_breakdown of the SDK path: sdk_ms is the duration of the SDK
\* call (a multiple of 0.04 ms in the model, so that its quarters are whole
\* hundredths), elapsed_ms the time since request_start
SdkLatencyBreakdown(sdk_ms, elapsed_ms) ==
    [total_ms |-> Round1(elapsed_ms),
     sdk_processing_ms |-> Round1(sdk_ms),
     embedding_generation_ms |-> Round1((sdk_ms * 3) \div 4),
     chromadb_search_ms |-> Round1(sdk_ms \div 4),
     processing_overhead_ms |-> Round1(elapsed_ms - sdk_ms),
     note |-> SdkNote]

\* data.get('enable_agentic_graph', False), validated as Optional[bool]
EnableAgenticGraph(data) ==
    IF "enable_agentic_graph" \in DOMAIN data THEN data.enable_agentic_graph ELSE FALSE

\* the SDK search called without the graph option of the request
SdkSearchArgsWithoutGraph(query, max_memories, enable_agentic_graph) ==
    [query |-> query, max_memories |-> max_memories, max_nodes |-> 10,
     enable_agentic_graph |-> FALSE, rank_results |-> TRUE]

\* the keyword arguments of papr_client.memory.search
SdkSearchArgs(query, max_memories, enable_agentic_graph) ==
    [query |-> query, max_memories |-> max_memories, max_nodes |-> 10,
     enable_agentic_graph |-> enable_agentic_graph, rank_results |-> TRUE]

\* 'content': m['content'][:100] if m['content'] else '(No content)'; every
\* content of the model is shorter than 100 characters
PreviewOf(m) ==
    [content |-> IF Falsy(m.content) THEN NoContentPlaceholder ELSE m.content,
     score |-> m.query_similarity]

\* an entry that counts the previewed memories only
SearchEntryCountsPreview(query, enable_agentic_graph, memories, latency_breakdown) ==
    [id |-> now,
     query |-> query,
     result_count |-> Min(1, Len(memories)),
     enable_agentic_graph |-> enable_agentic_graph,
     latency |-> latency_breakdown,
     top_score |-> IF memories # <<>> THEN memories[1].query_similarity ELSE 0,
     top_memories_preview |->
        [i \in 1..Min(PreviewLen, Len(memories)) |-> PreviewOf(memories[i])]]

\* search_entry
SearchEntry(query, enable_agentic_graph, memories, latency_breakdown) ==
    [id |-> now,
     query |-> query,
     result_count |-> Len(memories),
     enable_agentic_graph |-> enable_agentic_graph,
     latency |-> latency_breakdown,
     top_score |-> IF memories # <<>> THEN memories[1].query_similarity ELSE 0,
     top_memories_preview |->
        [i \in 1..Min(PreviewLen, Len(memories)) |-> PreviewOf(memories[i])]]

NoCalls == [embed |-> 0, tier0 |-> 0, tier1 |-> 0, remote |-> 0]
\* remote_args: the arguments of each call of the SDK search, in order;
\* embedded: the embeddings the embedder returned; tier_embeddings: the
\* embeddings handed to the tier queries, in order
NothingSeen ==
    [embedder |-> "notcalled", tier0 |-> NotCalled, tier1 |-> NotCalled,
     remote |-> NotCalled, remote_args |-> <<>>, embedded |-> <<>>,
     tier_embeddings |-> <<>>]

ErrorResponse(status, error) == [route |-> "search", status |-> status, error |-> error]

OkResponse(memories, latency_breakdown, search_id) ==
    [route |-> "search", status |-> 200, memories |-> memories,
     latency_breakdown |-> latency_breakdown, search_id |-> search_id]

\* if not papr_client: return 'PAPR SDK not initialized', 500
SdkNotInitializedIgnored(client) == FALSE

SdkNotInitialized(client) == ~client

\* use_fast_path = local_embedder is not None and local_collection is not None
FastPathReadyEither(embedder, collection) == embedder \/ collection

FastPathReady(embedder, collection) == embedder /\ collection

\* What one request does: its response, its external calls and, for a
\* successful search, the entry it appends (appended = TRUE).
HandleSearch(data, e) ==
    IF SdkNotInitialized(papr_client)
    THEN [response |-> ErrorResponse(500, "PAPR SDK not initialized"),
          calls |-> NoCalls, seen |-> NothingSeen, appended |-> FALSE, entry |-> <<>>]
    ELSE IF ~ValidQuery(data.query)
    THEN [response |-> ErrorResponse(400, "Invalid parameters"),
          calls |-> NoCalls, seen |-> NothingSeen, appended |-> FALSE, entry |-> <<>>]
    ELSE
    LET query == data.query
        max_memories == data.max_memories
        enable_agentic_graph == EnableAgenticGraph(data)
        fast_path_ready == FastPathReady(local_embedder, local_collection)
        local == PerformLocalCoremlSearch(query, max_memories, TRUE, TRUE, e)
        local_raised == fast_path_ready /\ local.raised
        use_fast_path == UseFastPathAfterLocal(fast_path_ready, local_raised)
        remote == RemoteExtract(e.remote)
        sdk_args == SdkSearchArgs(query, max_memories, enable_agentic_graph)
        sdk_breakdown == SdkLatencyBreakdown(e.timing.sdk_ms,
                                             e.timing.sdk_ms + e.timing.overhead_ms)
        local_calls == IF fast_path_ready
                       THEN [embed |-> local.embed_calls, tier0 |-> local.tier0_calls,
                             tier1 |-> local.tier1_calls, remote |-> 0]
                       ELSE NoCalls
        local_seen == IF fast_path_ready
                      THEN [embedder |-> local.embedder_seen, tier0 |-> local.tier0_seen,
                            tier1 |-> local.tier1_seen, remote |-> NotCalled,
                            remote_args |-> <<>>, embedded |-> local.embedded,
                            tier_embeddings |-> local.tier_embeddings]
                      ELSE [NothingSeen EXCEPT
                               !.tier1 = IF e.tier1.kind \in {"absent", "idle"}
                                         THEN e.tier1 ELSE NotCalled]
    IN  IF use_fast_path
        THEN IF local_raised
             THEN \* latency_breakdown is still None: 'NoneType' is not subscriptable
                  [response |-> ErrorResponse(500, "exception"),
                   calls |-> local_calls, seen |-> local_seen,
                   appended |-> FALSE, entry |-> <<>>]
             ELSE [response |-> OkResponse(local.memories, local.latency_breakdown, now),
                   calls |-> local_calls, seen |-> local_seen,
                   appended |-> TRUE,
                   entry |-> SearchEntry(query, enable_agentic_graph, local.memories,
                                         local.latency_breakdown)]
        ELSE IF e.remote.kind = "raise" \/ remote.raised
        THEN [response |-> ErrorResponse(500, "exception"),
              calls |-> [local_calls EXCEPT !.remote = 1],
              seen |-> [local_seen EXCEPT !.remote = e.remote, !.remote_args = <<sdk_args>>],
              appended |-> FALSE, entry |-> <<>>]
        ELSE [response |-> OkResponse(remote.memories, sdk_breakdown, now),
              calls |-> [local_calls EXCEPT !.remote = 1],
              seen |-> [local_seen EXCEPT !.remote = e.remote, !.remote_args = <<sdk_args>>],
              appended |-> TRUE,
              entry |-> SearchEntry(query, enable_agentic_graph, remote.memories,
                                    sdk_breakdown)]

\* search_history.append(search_entry) on a deque(maxlen=30)
DequeAppendUnbounded(history, entry) == Append(history, entry)

DequeAppend(history, entry) ==
    IF Len(history) = HistoryMaxLen
    THEN Append(Tail(history), entry)
    ELSE Append(history, entry)

\* a handler that records the searches it rejects as well
SearchMemoriesEffectRecordsErrors(data, e) ==
    LET out == HandleSearch(data, e)
        entry == IF out.appended THEN out.entry
                 ELSE [id |-> now, query |-> data.query, result_count |-> 0]
    IN
    /\ request' = [route |-> "search", body |-> data]
    /\ response' = out.response
    /\ calls' = out.calls
    /\ seen' = out.seen
    /\ search_history' = DequeAppend(search_history, entry)
    /\ completed' = IF out.appended THEN Append(completed, out.entry) ELSE completed
    /\ UNCHANGED now

\* everything the handler does to the state, but for the module globals
SearchMemoriesEffect(data, e) ==
    LET out == HandleSearch(data, e) IN
    /\ request' = [route |-> "search", body |-> data]
    /\ response' = out.response
    /\ calls' = out.calls
    /\ seen' = out.seen
    /\ search_history' = IF out.appended THEN DequeAppend(search_history, out.entry)
                         ELSE search_history
    /\ completed' = IF out.appended THEN Append(completed, out.entry) ELSE completed
    /\ UNCHANGED now

\* a fallback that forgets the cached embedder
SearchMemoriesDropsEmbedder(data, e) ==
    /\ SearchMemoriesEffect(data, e)
    /\ local_embedder' = (local_embedder /\ ~(calls'.embed = 1 /\ calls'.remote = 1))
    /\ UNCHANGED <<papr_client, local_collection, wait, workers, pipe>>

\* the handler assigns none of papr_client, local_embedder, local_collection
SearchMemories(data, e) ==
    /\ SearchMemoriesEffect(data, e)
    /\ UNCHANGED <<papr_client, local_embedder, local_collection, wait, workers, pipe>>

\* a history read that caches the embedder of the SDK when there is none
GetSearchHistoryCachesEmbedder ==
    /\ request' = [route |-> "search-history"]
    /\ response' = [route |-> "search-history", status |-> 200,
                    searches |-> search_history, count |-> Len(search_history)]
    /\ calls' = NoCalls
    /\ seen' = NothingSeen
    /\ local_embedder' = papr_client
    /\ UNCHANGED <<papr_client, local_collection, search_history,
                   now, completed, handled, wait, workers, pipe>>

\* get_search_history, the handler of GET /api/search-history
GetSearchHistory ==
    /\ request' = [route |-> "search-history"]
    /\ response' = [route |-> "search-history", status |-> 200,
                    searches |-> search_history, count |-> Len(search_history)]
    /\ calls' = NoCalls
    /\ seen' = NothingSeen
    /\ UNCHANGED <<papr_client, local_embedder, local_collection, search_history,
                   now, completed, handled, wait, workers, pipe>>

\* a millisecond passes
Tick ==
    /\ now < MaxClock
    /\ now' = now + 1
    /\ UNCHANGED <<papr_client, local_embedder, local_collection, search_history,
                   request, response, calls, seen, completed, handled, wait, workers,
                   pipe>>

-----------------------------------------------------------------------------
(* The requests and the behaviour of the external capabilities *)

Queries == {"", "find goals"}

\* the JSON body of a search request; search_tier0 and search_tier1 are the
\* tier options of the caller, here asking for both tiers
Requests ==
    [query : Queries, max_memories : 1..MaxLimit, enable_agentic_graph : BOOLEAN,
     search_tier0 : {TRUE}, search_tier1 : {TRUE}]

\* bodies that ask for every choice of tiers
TierRequests ==
    [query : {"find goals"}, max_memories : {MaxLimit}, enable_agentic_graph : {FALSE},
     search_tier0 : BOOLEAN, search_tier1 : BOOLEAN]

\* a body with no "enable_agentic_graph" key
BareRequests ==
    [query : Queries, max_memories : {1},
     search_tier0 : {TRUE}, search_tier1 : {TRUE}]

Tier0Outcomes == {Raises} \cup {Answers(a) : a \in Tier0Answers}
Tier1Outcomes == {Absent, Raises} \cup {Answers(a) : a \in Tier1Answers}
\* the SDK is asked for max_memories memories and answers with no more
RemoteOutcomes(max_memories) ==
    {Raises, NoData} \cup {Answers(a) : a \in {r \in RemoteAnswers : Len(r) <= max_memories}}

\* durations in hundredths of a millisecond: the embedding, a query of each
\* tier, the SDK search, and the rest of the request around the SDK search
DefaultTiming ==
    [embed_ms |-> 1240, tier0_ms |-> 350, tier1_ms |-> 420, sdk_ms |-> 10040,
     overhead_ms |-> 10]

Env(embedder_raises, tier0, tier1, remote) ==
    [embedder_raises |-> embedder_raises, tier0 |-> tier0, tier1 |-> tier1,
     remote |-> remote, timing |-> DefaultTiming]

\* What the embedder, the collections and the SDK do during one request. An
\* outcome is drawn for a capability only where the request can reach it:
\* none without a client or a valid query, the embedder and the collections
\* only when both handles are cached, the collections only when the embedder
\* answers, the SDK only when the local path is not taken to its end. With
\* an embedder and no cached collection, the SDK holds a tier1 collection
\* (Idle) or not (Absent).
Envs(data) ==
    IF ~papr_client \/ ~ValidQuery(data.query)
    THEN {Env(FALSE, NotCalled, NotCalled, NotCalled)}
    ELSE IF local_embedder /\ local_collection
    THEN {Env(TRUE, NotCalled, NotCalled, r) : r \in RemoteOutcomes(data.max_memories)}
         \cup {Env(FALSE, t[1], t[2], NotCalled) : t \in Tier0Outcomes \X Tier1Outcomes}
    ELSE IF local_embedder
    THEN {Env(FALSE, NotCalled, t1, r) :
             t1 \in {Absent, Idle}, r \in RemoteOutcomes(data.max_memories)}
    ELSE {Env(FALSE, NotCalled, NotCalled, r) : r \in RemoteOutcomes(data.max_memories)}

\* the requests and outcomes of SpecHistory: one valid and one invalid query,
\* an embedder that answers, collections and an SDK that find nothing or fail
HistRequests ==
    {d \in Requests : /\ d.query # None /\ d.max_memories = 1 /\ ~d.enable_agentic_graph
                      /\ d.search_tier0 /\ d.search_tier1}

HistEnvs(data) ==
    {e \in Envs(data) : /\ ~e.embedder_raises
                        /\ e.tier0 \in {NotCalled, Answers(<<>>)}
                        /\ e.tier1 \in {NotCalled, Absent}
                        /\ e.remote \in {NotCalled, Raises, Answers(<<>>)}}

-----------------------------------------------------------------------------
(* The state machine *)

\* The state when the module has been imported: the client may have failed
\* to initialise, and then nothing is cached; with a client, each of the
\* embedder and the collection is cached or not.
Init ==
    /\ papr_client \in BOOLEAN
    /\ local_embedder \in BOOLEAN
    /\ local_collection \in BOOLEAN
    /\ ~papr_client => (~local_embedder /\ ~local_collection)
    /\ search_history = <<>>
    /\ now = 0
    /\ request = [route |-> "none"]
    /\ response = [route |-> "none", status |-> 0]
    /\ calls = NoCalls
    /\ seen = NothingSeen
    /\ completed = <<>>
    /\ handled = 0
    /\ wait = WaitNotCalled
    /\ workers = [w \in Workers |-> WorkerIdle]
    /\ pipe = PipeEmpty

SearchRequest ==
    /\ handled < MaxSearches
    /\ handled' = handled + 1
    /\ \E data \in Requests \cup TierRequests \cup BareRequests :
          \E e \in Envs(data) : SearchMemories(data, e)

HistorySearchRequest ==
    /\ Len(completed) < MaxHistSearches
    /\ UNCHANGED handled
    /\ \E data \in HistRequests : \E e \in HistEnvs(data) : SearchMemories(data, e)

\* Spec: search requests with every input and every behaviour of the
\* capabilities, at one instant of the clock
Next == SearchRequest \/ GetSearchHistory

Spec == Init /\ [][Next]_vars

\* SpecHistory: long runs of searches while the clock advances
NextHistory == HistorySearchRequest \/ GetSearchHistory \/ Tick

SpecHistory == Init /\ [][NextHistory]_vars

\* the requests and outcomes of SpecLatency: one valid query, collections
\* and an SDK that find nothing, and durations that fall on a tenth of a
\* millisecond or between two tenths (never on a rounding tie)
LatencyRequests ==
    {d \in Requests : /\ d.query = "find goals" /\ d.max_memories = 1
                      /\ d.search_tier0 /\ d.search_tier1}

Timings ==
    [embed_ms : {1236, 1240, 1252}, tier0_ms : {346, 350, 358}, tier1_ms : {420, 423},
     sdk_ms : {10024, 10040, 10064}, overhead_ms : {0, 10}]

LatencyEnvs(data) ==
    {[e EXCEPT !.timing = t] :
        e \in {x \in Envs(data) : /\ x.tier0 \in {NotCalled, Raises, Answers(<<>>)}
                                  /\ x.tier1 \in {NotCalled, Absent, Answers(<<>>)}
                                  /\ x.remote \in {NotCalled, Answers(<<>>)}},
        t \in Timings}

LatencySearchRequest ==
    /\ handled < MaxSearches
    /\ handled' = handled + 1
    /\ \E data \in LatencyRequests : \E e \in LatencyEnvs(data) : SearchMemories(data, e)

\* SpecLatency: searches whose steps take different durations
NextLatency == LatencySearchRequest \/ GetSearchHistory

SpecLatency == Init /\ [][NextLatency]_vars

\* The handlers as the steps of request threads. The server runs each
\* request in a thread of its own; a step is a stretch of a handler that
\* touches the shared history at most once.

\* the search requests of the threads: a valid query, "b" asking for the graph
WorkerRequests(w) ==
    {[d EXCEPT !.enable_agentic_graph = (w = "b")] :
        d \in {x \in HistRequests : x.query = "find goals"}}

WorkerEnvs(data) == {e \in HistEnvs(data) : e.remote.kind # "raise"}

\* search_memories up to the search_entry: validation, one of the two
\* paths, the entry with the id read from the clock
BeginSearch(w) ==
    /\ workers[w].pc = "idle"
    /\ \E data \in WorkerRequests(w) : \E e \in WorkerEnvs(data) :
          workers' = [workers EXCEPT ![w] =
                         [@ EXCEPT !.pc = "handled", !.served = TRUE, !.data = data,
                                   !.out = HandleSearch(data, e)]]
    /\ UNCHANGED <<papr_client, local_embedder, local_collection, search_history, now,
                   request, response, calls, seen, completed, handled, wait, pipe>>

\* an append that is lost when another thread is about to append as well
AppendHistoryLost(w) ==
    /\ workers[w].pc = "handled"
    /\ workers[w].out.appended
    /\ search_history' =
          IF \E v \in Workers \ {w} : workers[v].pc = "handled"
          THEN search_history
          ELSE DequeAppend(search_history, workers[w].out.entry)
    /\ completed' = Append(completed, workers[w].out.entry)
    /\ workers' = [workers EXCEPT ![w] = [@ EXCEPT !.pc = "appended", !.recorded = @ + 1]]
    /\ UNCHANGED <<papr_client, local_embedder, local_collection, now,
                   request, response, calls, seen, handled, wait, pipe>>

\* search_history.append(search_entry): one step, deque.append is atomic
AppendHistory(w) ==
    /\ workers[w].pc = "handled"
    /\ workers[w].out.appended
    /\ search_history' = DequeAppend(search_history, workers[w].out.entry)
    /\ completed' = Append(completed, workers[w].out.entry)
    /\ workers' = [workers EXCEPT ![w] = [@ EXCEPT !.pc = "appended", !.recorded = @ + 1]]
    /\ UNCHANGED <<papr_client, local_embedder, local_collection, now,
                   request, response, calls, seen, handled, wait, pipe>>

\* the response of search_memories: after the append, or an error
Respond(w) ==
    /\ \/ workers[w].pc = "appended"
       \/ workers[w].pc = "handled" /\ ~workers[w].out.appended
    /\ request' = [route |-> "search", body |-> workers[w].data]
    /\ response' = workers[w].out.response
    /\ calls' = workers[w].out.calls
    /\ seen' = workers[w].out.seen
    /\ workers' = [workers EXCEPT ![w] = [@ EXCEPT !.pc = "idle", !.data = <<>>, !.out = <<>>]]
    /\ UNCHANGED <<papr_client, local_embedder, local_collection, search_history, now,
                   completed, handled, wait, pipe>>

\* get_search_history: 'searches': list(search_history) is evaluated
BeginRead(w) ==
    /\ workers[w].pc = "idle"
    /\ workers' = [workers EXCEPT ![w] = [@ EXCEPT !.pc = "listed", !.snapshot = search_history]]
    /\ UNCHANGED <<papr_client, local_embedder, local_collection, search_history, now,
                   request, response, calls, seen, completed, handled, wait, pipe>>

\* get_search_history: 'count': len(search_history) is evaluated, and the
\* response is sent
FinishRead(w) ==
    /\ workers[w].pc = "listed"
    /\ request' = [route |-> "search-history"]
    /\ response' = [route |-> "search-history", status |-> 200,
                    searches |-> workers[w].snapshot, count |-> Len(search_history)]
    /\ calls' = NoCalls
    /\ seen' = NothingSeen
    /\ workers' = [workers EXCEPT ![w] = [@ EXCEPT !.pc = "idle", !.snapshot = <<>>]]
    /\ UNCHANGED <<papr_client, local_embedder, local_collection, search_history, now,
                   completed, handled, wait, pipe>>

\* SpecConcurrent: thread "a" handles one search after another while
\* thread "b" handles a single search
ConcurrentBegin ==
    \/ Len(completed) < MaxHistSearches /\ BeginSearch("a")
    \/ ~workers["b"].served /\ BeginSearch("b")

NextConcurrent ==
    \/ ConcurrentBegin
    \/ \E w \in Workers : AppendHistory(w)
    \/ \E w \in Workers : Respond(w)

SpecConcurrent == Init /\ [][NextConcurrent]_vars

\* SpecReads: thread "a" handles searches while thread "b" reads the history
ReadsBegin == Len(completed) < MaxSearches /\ BeginSearch("a")

NextReads ==
    \/ ReadsBegin
    \/ AppendHistory("a")
    \/ Respond("a")
    \/ BeginRead("b")
    \/ FinishRead("b")

SpecReads == Init /\ [][NextReads]_vars

\* PaprMemoryService of src/src/python/pipecat_server.py. A frame is a
\* record: id tells which received frame it is (0 for a frame the service
\* created), memories holds the contents a context frame lists.

SearchThreshold == 70   \* search_threshold=0.7, in hundredths
SearchLimit == 5        \* search_limit=5

InputFrames(id) ==
    [id : {id}, kind : {"text", "other"}, direction : {"downstream", "upstream"},
     text : {"hello"}, memories : {<<>>}]

\* the memories of a 200 response of POST /api/search
PipeMemories ==
    { <<>>,
      << [content |-> "remote two", query_similarity |-> 60] >>,
      << [content |-> "remote one", query_similarity |-> 90],
         [content |-> "remote two", query_similarity |-> 60] >> }

\* the POST raises, answers with another status, with a body that is not
\* the expected JSON, or with memories
PipeSearchOutcomes ==
    {[kind |-> k, memories |-> <<>>] : k \in {"raise", "status", "badjson"}}
    \cup {[kind |-> "ok", memories |-> ms] : ms \in PipeMemories}

\* no API key, or the POST of the message raises, or answers 200 or not
PipeStoreOutcomes == {"nokey", "raise", "ok", "status"}

AtLeastThreshold(m) == m.query_similarity >= SearchThreshold

\* _search_memories: the memories at or above the threshold, [] on any
\* failure; raised tells whether an exception leaves the method
SearchMemoriesOf(outcome) ==
    [raised |-> FALSE,
     memories |-> IF outcome.kind = "ok"
                  THEN SelectSeq(outcome.memories, AtLeastThreshold)
                  ELSE <<>>]

\* a _store_message without its try/except
StoreMessageUncaught(outcome) == [raised |-> outcome = "raise"]

\* _store_message: every failure is printed and swallowed
StoreMessage(outcome) == [raised |-> FALSE]

\* TextFrame("[MEMORY CONTEXT]...") built from _format_memories
ContextFrame(memories, direction) ==
    [id |-> 0, kind |-> "text", direction |-> direction, text |-> "[MEMORY CONTEXT]",
     memories |-> [i \in 1..Min(SearchLimit, Len(memories)) |-> memories[i].content]]

\* process_frame: the frames it pushes, in order; an exception that leaves
\* a callee leaves process_frame before anything is pushed
Pushes(frame, search, store) ==
    IF frame.kind = "text" /\ frame.direction = "downstream"
    THEN LET found == SearchMemoriesOf(search)
             stored == StoreMessage(store)
         IN  IF found.raised \/ stored.raised THEN <<>>
             ELSE (IF found.memories # <<>>
                   THEN <<ContextFrame(found.memories, frame.direction)>>
                   ELSE <<>>) \o <<frame>>
    ELSE <<frame>>

ProcessFrame ==
    /\ Len(pipe.received) < MaxFrames
    /\ \E frame \in InputFrames(Len(pipe.received) + 1),
          search \in PipeSearchOutcomes, store \in PipeStoreOutcomes :
          LET asks == frame.kind = "text" /\ frame.direction = "downstream"
          IN  pipe' = [received |-> Append(pipe.received, frame),
                       pushed |-> pipe.pushed \o Pushes(frame, search, store),
                       search |-> IF asks THEN search.kind ELSE "none",
                       store |-> IF asks THEN store ELSE "none"]
    /\ UNCHANGED <<papr_client, local_embedder, local_collection, search_history, now,
                   request, response, calls, seen, completed, handled, wait, workers>>

\* SpecFrames: frames of every kind and direction through PaprMemoryService
NextFrames == ProcessFrame

SpecFrames == Init /\ [][NextFrames]_vars

\* SpecWait: one call of _wait_for_coreml_pipeline with every timeout,
\* interval and behaviour of the SDK. The thread that runs the wait keeps
\* running, and the clock does not stand still for ever.
NextWait == WaitCall \/ WaitTest \/ WaitPoll \/ WaitSleep \/ SdkProgress

SpecWait == Init /\ [][NextWait]_vars /\ WF_vars(WaitStep) /\ SF_vars(TimePasses)

-----------------------------------------------------------------------------
(* Vocabulary of the properties *)

IsSearch == request.route = "search" /\ response.route = "search"
IsOk == IsSearch /\ response.status = 200
IsHistoryRead == response.route = "search-history"
Limit == request.body.max_memories

NonIncreasing(ms) ==
    \A i \in 1..(Len(ms) - 1) : ms[i].query_similarity >= ms[i + 1].query_similarity

IdsOf(s) == {s[i].id : i \in 1..Len(s)}

HasTier(m, tier) == "tier" \in DOMAIN m /\ m.tier = tier

\* the similarity a row of a collection's answer stands for
ExpectedSimilarity(c) == IF c.distance = NoDistance THEN 0 ELSE 100 - c.distance

\* the rows of an answer, each with the tier whose collection returned it
Tagged(items, tier) ==
    [i \in 1..Len(items) |->
        [id |-> items[i].id, tier |-> tier, similarity |-> ExpectedSimilarity(items[i])]]

\* ms is the best `limit` of the candidates: as many as the limit allows,
\* each one a candidate with its own tier and similarity, none twice, in
\* non-increasing order, and no candidate left out beats one that is in
BestOf(ms, cands, limit) ==
    /\ Len(ms) = Min(limit, Len(cands))
    /\ NonIncreasing(ms)
    /\ Cardinality(IdsOf(ms)) = Len(ms)
    /\ \A i \in 1..Len(ms) :
          \E j \in 1..Len(cands) :
             /\ cands[j].id = ms[i].id
             /\ HasTier(ms[i], cands[j].tier)
             /\ ms[i].query_similarity = cands[j].similarity
    /\ \A j \in 1..Len(cands) :
          cands[j].id \notin IdsOf(ms) =>
             /\ ms # <<>>
             /\ cands[j].similarity <= ms[Len(ms)].query_similarity

-----------------------------------------------------------------------------
(* C1: after N successful searches the history holds min(N, 30) entries,   *)
(* which are the most recent ones in insertion order, oldest first; a read *)
(* of the history reports them, and count = 30 once N > 30.                *)
C1_HistoryKeepsMostRecent ==
    /\ Len(search_history) = Min(Len(completed), 30)
    /\ search_history = LastN(completed, 30)
    /\ IsHistoryRead =>
          /\ response.searches = LastN(completed, 30)
          /\ response.count = Min(Len(completed), 30)

C1_Witness ==
    /\ Len(completed) > 30
    /\ IsHistoryRead
    /\ response.count = 30
    /\ completed[1].id # completed[Len(completed)].id

(* C2: when the embedder raises, a search with a valid query goes to the   *)
(* SDK; if the SDK answers, the search succeeds with the SDK's memories    *)
(* and its latency breakdown carries the note of the SDK path.             *)
C2_EmbedderFailureFallsBack ==
    (IsSearch /\ seen.embedder = "raise") =>
        /\ calls.remote = 1
        /\ seen.remote.kind = "ok" =>
              /\ response.status = 200
              /\ Len(response.memories) = Len(seen.remote.items)
              /\ \A i \in 1..Len(response.memories) :
                    /\ response.memories[i].id = seen.remote.items[i].id
                    /\ "tier" \notin DOMAIN response.memories[i]
              /\ response.latency_breakdown.note = SdkNote
              /\ response.latency_breakdown.note # LocalNote

C2_Witness ==
    /\ IsOk
    /\ request.body.query # ""
    /\ seen.embedder = "raise"
    /\ seen.remote.kind = "ok"
    /\ Len(response.memories) > 0

(* C3: a successful search returns at most max_memories records, in order  *)
(* of non-increasing query similarity, on either path.                     *)
C3_AtMostLimitSorted ==
    IsOk => (Len(response.memories) <= Limit /\ NonIncreasing(response.memories))

(* C4: every record returned carries a tier tag, which names the           *)
(* collection that returned it.                                            *)
C4_EveryRecordTagged ==
    IsOk =>
        \A i \in 1..Len(response.memories) :
            LET m == response.memories[i] IN
            /\ "tier" \in DOMAIN m
            /\ m.tier \in {0, 1}
            /\ m.tier = 0 => m.id \in IdsOf(seen.tier0.items)
            /\ m.tier = 1 => m.id \in IdsOf(seen.tier1.items)

(* C5: a search issued with searchTier0 = false does not query the tier0   *)
(* collection and returns no Tier0 record; likewise for tier1.             *)
C5_TierOptionsHonoured ==
    IsSearch =>
        /\ ~request.body.search_tier0 =>
              /\ calls.tier0 = 0
              /\ IsOk => \A i \in 1..Len(response.memories) : ~HasTier(response.memories[i], 0)
        /\ ~request.body.search_tier1 =>
              /\ calls.tier1 = 0
              /\ IsOk => \A i \in 1..Len(response.memories) : ~HasTier(response.memories[i], 1)

(* C6, as stated: a request with an empty or missing query is rejected     *)
(* with the invalid-parameters error, and makes no external call.          *)
C6_EmptyQueryInvalidParameters ==
    (IsSearch /\ request.body.query = "") =>
        /\ response.status = 400
        /\ response.error = "Invalid parameters"
        /\ calls = NoCalls

(* C6, amended: a request with an empty or missing query makes no external *)
(* call and is rejected: with the invalid-parameters error (400) when the  *)
(* client is present, with the not-initialized error (500) when it is not. *)
C6_EmptyQueryRejectedWithoutCalls ==
    (IsSearch /\ request.body.query = "") =>
        /\ calls = NoCalls
        /\ response.status # 200
        /\ papr_client => (response.status = 400 /\ response.error = "Invalid parameters")
        /\ ~papr_client => (response.status = 500 /\ response.error = "PAPR SDK not initialized")

C6_Witness ==
    /\ IsSearch
    /\ request.body.query = ""
    /\ papr_client /\ local_embedder /\ local_collection
    /\ response.status = 400

(* C7: when the query of exactly one tier raises, the search succeeds on   *)
(* the local path with the best max_memories records of the other tier,    *)
(* sorted, and nothing is raised: the SDK is not called.                   *)
C7_OneTierFailureIsAbsorbed ==
    /\ (IsSearch /\ seen.tier0.kind = "raise" /\ seen.tier1.kind = "ok") =>
          /\ response.status = 200
          /\ response.latency_breakdown.note = LocalNote
          /\ calls.remote = 0
          /\ BestOf(response.memories, Tagged(seen.tier1.items, 1), Limit)
    /\ (IsSearch /\ seen.tier1.kind = "raise" /\ seen.tier0.kind = "ok") =>
          /\ response.status = 200
          /\ response.latency_breakdown.note = LocalNote
          /\ calls.remote = 0
          /\ BestOf(response.memories, Tagged(seen.tier0.items, 0), Limit)

C7_Witness ==
    /\ IsOk
    /\ seen.tier0.kind = "raise"
    /\ seen.tier1 = Answers(Tier1Mixed)
    /\ Len(response.memories) = 2

(* C8: a search with a valid query answers with an error only when no path *)
(* is left: the client is absent, or the local path was not ready or its   *)
(* embedder raised and the SDK search raised as well. A tier that fails,   *)
(* or a local path that fails while the SDK answers, gives no error.       *)
C8_ErrorOnlyWhenBothPathsFail ==
    (IsSearch /\ request.body.query # "" /\ response.status # 200) =>
        \/ ~papr_client
        \/ /\ seen.embedder # "ok"
           /\ calls.remote = 1
           /\ seen.remote.kind = "raise"

C8_Witness ==
    /\ IsSearch
    /\ response.status = 500
    /\ papr_client
    /\ seen.embedder = "raise"
    /\ seen.remote.kind = "raise"

C8_WitnessDegraded ==
    /\ IsOk
    /\ seen.tier0.kind = "raise"
    /\ seen.tier1.kind = "raise"

(* C9: the local merge returns the first max_memories of both tiers'       *)
(* candidates in order of descending similarity, each with the tier that   *)
(* returned it; tier0 [0.9 .. 0.5] and tier1 [0.95 .. 0.55] with limit 3   *)
(* give [0.95, 0.9, 0.85] with tiers [1, 0, 1].                            *)
C9_MergeIsBestOfBothTiers ==
    (IsOk /\ response.latency_breakdown.note = LocalNote) =>
        /\ BestOf(response.memories,
                  Tagged(seen.tier0.items, 0) \o Tagged(seen.tier1.items, 1), Limit)
        /\ (seen.tier0 = Answers(Tier0Example) /\ seen.tier1 = Answers(Tier1Example)
            /\ Limit = 3) =>
              /\ [i \in 1..3 |-> response.memories[i].query_similarity] = <<95, 90, 85>>
              /\ [i \in 1..3 |-> response.memories[i].tier] = <<1, 0, 1>>

C9_Witness ==
    /\ IsOk
    /\ seen.tier0 = Answers(Tier0Example)
    /\ seen.tier1 = Answers(Tier1Example)
    /\ Limit = 3
    /\ Len(response.memories) = 3

(* C10: once the embedder handle and the collection handle are both set,   *)
(* no step resets either of them, a search that falls back included.       *)
C10_ReadinessIsNeverLost ==
    [][(local_embedder /\ local_collection) => (local_embedder' /\ local_collection')]_vars

C10_Witness ==
    /\ IsOk
    /\ local_embedder /\ local_collection
    /\ seen.embedder = "raise"
    /\ calls.remote = 1

-----------------------------------------------------------------------------
\* C11: every search that completes successfully, on the local path or on
\* the SDK fallback, appends exactly one history entry that carries the
\* query, the result count and the latency breakdown of that search; below
\* capacity the history is one longer than before, its earlier entries kept.
C11_SuccessAppendsOneEntry ==
    [][(handled' = handled + 1 /\ response'.status = 200) =>
          /\ completed' = Append(completed, search_history'[Len(search_history')])
          /\ Len(search_history) < HistoryMaxLen =>
                /\ Len(search_history') = Len(search_history) + 1
                /\ \A i \in 1..Len(search_history) : search_history'[i] = search_history[i]
          /\ LET entry == search_history'[Len(search_history')]
             IN  /\ entry.query = request'.body.query
                 /\ entry.result_count = Len(response'.memories)
                 /\ entry.latency = response'.latency_breakdown]_vars

\* a fallback search that returned two memories left one entry counting two
C11_Witness ==
    /\ IsOk
    /\ seen.embedder = "raise"
    /\ response.latency_breakdown.note = SdkNote
    /\ Len(response.memories) = 2
    /\ Len(search_history) = 1
    /\ search_history[1].result_count = 2

\* C12: without a PAPR client every search request is answered with status
\* 500 and an error field, and neither the embedder, nor a collection, nor
\* the SDK search is called.
C12_NoClientIsAnErrorWithoutCalls ==
    (IsSearch /\ ~papr_client) =>
        /\ response.status = 500
        /\ "error" \in DOMAIN response
        /\ calls = NoCalls

C12_Witness ==
    /\ IsSearch
    /\ ~papr_client
    /\ request.body.query = "find goals"
    /\ response.status = 500
    /\ response.error = "PAPR SDK not initialized"

\* C13: a request served by the SDK search calls it exactly once, with
\* enable_agentic_graph equal to the value of the request (False when the
\* body has no such key) and with rank_results = True.
C13_SdkCalledOnceWithGraphOption ==
    (IsSearch /\ calls.remote >= 1) =>
        /\ calls.remote = 1
        /\ Len(seen.remote_args) = 1
        /\ seen.remote_args[1].rank_results = TRUE
        /\ seen.remote_args[1].query = request.body.query
        /\ seen.remote_args[1].enable_agentic_graph =
              IF "enable_agentic_graph" \in DOMAIN request.body
              THEN request.body.enable_agentic_graph
              ELSE FALSE

\* the SDK search was asked for the graph by a request that asked for it
C13_Witness ==
    /\ IsOk
    /\ calls.remote = 1
    /\ "enable_agentic_graph" \in DOMAIN request.body
    /\ request.body.enable_agentic_graph = TRUE
    /\ seen.remote_args[1].enable_agentic_graph = TRUE

\* the SDK search was called without the graph by a body without the key
C13_WitnessOmitted ==
    /\ IsOk
    /\ calls.remote = 1
    /\ "enable_agentic_graph" \notin DOMAIN request.body
    /\ seen.remote_args[1].enable_agentic_graph = FALSE

\* C14: the fast path is taken as ready exactly when the embedder is set
\* and at least one collection, tier0 or tier1, is set; a process with an
\* embedder and only the tier1 collection attempts the local search.
C14_ReadyIffEmbedderAndAnyCollection ==
    (IsSearch /\ papr_client /\ request.body.query # "") =>
        (calls.embed = 1 <=>
            /\ local_embedder
            /\ local_collection \/ seen.tier1.kind \in {"ok", "raise", "idle"})

\* C15: in every latency breakdown returned by a search the total, the
\* embedding, the vector-search and the overhead values are non-negative
\* and the total is at least the embedding value plus the vector-search
\* value.
C15_LatencyBreakdownAddsUp ==
    IsOk =>
        LET b == response.latency_breakdown
        IN  /\ b.total_ms >= 0
            /\ b.embedding_generation_ms >= 0
            /\ b.chromadb_search_ms >= 0
            /\ b.processing_overhead_ms >= 0
            /\ b.total_ms >= b.embedding_generation_ms + b.chromadb_search_ms

\* C16: no returned record carries a placeholder string as its content; a
\* source without content gives a record whose content is None.
C16_NoPlaceholderContent ==
    IsOk =>
        \A i \in 1..Len(response.memories) :
            response.memories[i].content \notin {NoContentPlaceholder, "None", "none", ""}

\* C17: when the local attempt fails, by the embedder raising or by both
\* tier queries failing, the SDK search is called and a successful response
\* is the SDK's result.
C17_LocalFailureFallsBack ==
    (/\ IsSearch
     /\ calls.embed = 1
     /\ \/ seen.embedder = "raise"
        \/ seen.tier0.kind = "raise" /\ seen.tier1.kind = "raise") =>
        /\ calls.remote = 1
        /\ IsOk => response.latency_breakdown.note = SdkNote

\* C18 as stated: every search request with a valid query that arrives
\* while the fast path is not ready goes straight to the SDK search, with
\* no embedder call, no collection query and no wait.
C18_NotReadyAlwaysGoesToSdk ==
    [][(/\ handled' = handled + 1
        /\ ~(local_embedder /\ local_collection)
        /\ request'.body.query # "") =>
          /\ calls'.embed = 0 /\ calls'.tier0 = 0 /\ calls'.tier1 = 0
          /\ calls'.remote = 1
          /\ now' = now]_vars

\* C18: a search request with a valid query that arrives while the fast
\* path is not ready calls neither the embedder nor a collection and does
\* not wait for readiness (the clock and the cached handles are as before
\* the request); with a client it goes straight to the SDK search, and
\* without a client it is answered 500 with no call at all.
C18_NotReadyGoesStraightToSdk ==
    [][(/\ handled' = handled + 1
        /\ ~(local_embedder /\ local_collection)
        /\ request'.body.query # "") =>
          /\ calls'.embed = 0
          /\ calls'.tier0 = 0
          /\ calls'.tier1 = 0
          /\ papr_client => calls'.remote = 1
          /\ ~papr_client => (calls'.remote = 0 /\ response'.status = 500)
          /\ now' = now
          /\ UNCHANGED <<local_embedder, local_collection>>]_vars

\* an embedder without a cached collection: the request was served by the SDK
C18_Witness ==
    /\ IsOk
    /\ local_embedder
    /\ ~local_collection
    /\ calls = [NoCalls EXCEPT !.remote = 1]
    /\ response.latency_breakdown.note = SdkNote

\* C19: within one search the local search is attempted at most once and
\* only when the fast path is ready; the SDK search is called at most once,
\* and only when the fast path was not ready or the local attempt raised; a
\* successful response carries the record list of the one path that
\* produced it.
C19_OnePathProducesTheResult ==
    IsSearch =>
        /\ calls.embed <= 1 /\ calls.tier0 <= 1 /\ calls.tier1 <= 1 /\ calls.remote <= 1
        /\ calls.embed = 1 => (local_embedder /\ local_collection)
        /\ calls.remote = 1 =>
              \/ ~(local_embedder /\ local_collection)
              \/ seen.embedder = "raise"
        /\ IsOk =>
              \/ /\ response.latency_breakdown.note = LocalNote
                 /\ seen.embedder = "ok"
                 /\ calls.remote = 0
                 /\ \A i \in 1..Len(response.memories) : "tier" \in DOMAIN response.memories[i]
              \/ /\ response.latency_breakdown.note = SdkNote
                 /\ calls.remote = 1
                 /\ seen.remote.kind \in {"ok", "nodata"}
                 /\ IdsOf(response.memories) = IdsOf(seen.remote.items)

\* a local attempt that returned records, the SDK never called
C19_Witness ==
    /\ IsOk
    /\ calls.embed = 1
    /\ calls.remote = 0
    /\ response.latency_breakdown.note = LocalNote
    /\ Len(response.memories) >= 2

\* the position of a record in the concatenation of the tier answers
ArrivalOf(id) ==
    LET rows == seen.tier0.items \o seen.tier1.items
    IN  CHOOSE k \in 1..Len(rows) : rows[k].id = id

\* C20: in the merged result of the local search, records with equal query
\* similarity are in their order of arrival, tier0 before tier1 and each
\* tier in the order its collection returned; relevance_score plays no part.
C20_TiesKeepArrivalOrder ==
    (IsOk /\ response.latency_breakdown.note = LocalNote) =>
        \A i, j \in 1..Len(response.memories) :
            (/\ i < j
             /\ response.memories[i].query_similarity = response.memories[j].query_similarity) =>
                ArrivalOf(response.memories[i].id) < ArrivalOf(response.memories[j].id)

\* g7 of tier0 precedes m6 of tier1: equal similarity, m6 the more relevant
C20_Witness ==
    /\ IsOk
    /\ response.latency_breakdown.note = LocalNote
    /\ Len(response.memories) >= 2
    /\ response.memories[1].id = "g7"
    /\ response.memories[2].id = "m6"
    /\ response.memories[1].query_similarity = response.memories[2].query_similarity
    /\ response.memories[1].relevance_score < response.memories[2].relevance_score

\* C21: on the local path the embedder is called exactly once per search,
\* and every tier query of that search is handed the embedding that call
\* returned, however many tiers are queried and whether or not they fail.
C21_OneEmbeddingForAllTiers ==
    (IsSearch /\ seen.embedder = "ok") =>
        /\ calls.embed = 1
        /\ Len(seen.embedded) = 1
        /\ Len(seen.tier_embeddings) = calls.tier0 + calls.tier1
        /\ \A i \in 1..Len(seen.tier_embeddings) :
              seen.tier_embeddings[i] = seen.embedded[1]

\* both tiers were queried, one of them failed
C21_Witness ==
    /\ IsOk
    /\ calls = [embed |-> 1, tier0 |-> 1, tier1 |-> 1, remote |-> 0]
    /\ seen.tier0.kind = "raise"
    /\ seen.tier1.kind = "ok"
    /\ Len(seen.tier_embeddings) = 2

\* C23: every record of the local merge has a query similarity in [0, 1].
C23_SimilarityWithinUnitInterval ==
    (IsOk /\ response.latency_breakdown.note = LocalNote) =>
        \A i \in 1..Len(response.memories) :
            /\ response.memories[i].query_similarity >= 0
            /\ response.memories[i].query_similarity <= 100

\* C25: no two successful searches are given the same search id, so no two
\* recorded entries share an id.
C25_SearchIdsAreUnique ==
    \A i, j \in 1..Len(completed) :
        i # j => completed[i].id # completed[j].id

\* C27: a search request that ends in an error response leaves the search
\* history as it was: nothing is appended, evicted or modified.
C27_ErrorLeavesHistoryUnchanged ==
    [][(/\ request'.route = "search"
        /\ response'.route = "search"
        /\ response'.status # 200) =>
          /\ search_history' = search_history
          /\ completed' = completed]_vars

\* the SDK search failed while the history was full
C27_Witness ==
    /\ IsSearch
    /\ response.status = 500
    /\ calls.remote = 1
    /\ seen.remote.kind = "raise"
    /\ Len(search_history) = HistoryMaxLen

\* C30 as stated: no step changes the cached embedder or collection, and
\* every search with a valid query that finds the fast path not ready is
\* served by the SDK search.
C30_NotReadyIsAlwaysRemote ==
    [][/\ UNCHANGED <<local_embedder, local_collection>>
       /\ (/\ request'.route = "search"
           /\ request'.body.query # ""
           /\ ~(local_embedder /\ local_collection)) =>
             (calls'.remote = 1 /\ calls'.embed = 0)]_vars

\* C30: no step changes the cached embedder or collection, so a process
\* whose fast path is not ready stays so: each of its searches with a valid
\* query is served by the SDK search when there is a client, and is
\* answered 500 when there is none; none of them calls the embedder.
C30_ReadinessDecidedAtStartup ==
    [][/\ UNCHANGED <<local_embedder, local_collection>>
       /\ (/\ request'.route = "search"
           /\ request'.body.query # ""
           /\ ~(local_embedder /\ local_collection)) =>
             /\ calls'.embed = 0
             /\ papr_client => calls'.remote = 1
             /\ ~papr_client => response'.status = 500]_vars

\* a history read, then a search that the SDK served
C30_Witness ==
    /\ IsOk
    /\ papr_client
    /\ ~local_embedder
    /\ local_collection
    /\ calls.remote = 1
    /\ response.latency_breakdown.note = SdkNote

\* C22: the readiness wait always returns. It returns True only when its
\* last poll read the collection as set together with the embedder as set
\* or the status as complete; it returns False only without a client or
\* once the clock has reached end_time.
C22_WaitTerminates ==
    /\ [](wait.pc = "done" =>
            /\ wait.result =>
                  /\ wait.client
                  /\ wait.read.collection
                  /\ wait.read.embedder \/ wait.read.complete
            /\ ~wait.result => (~wait.client \/ wait.t >= wait.end_time))
    /\ [](wait.pc # "idle" => <>(wait.pc = "done"))

\* the SDK never became ready, the status read and the embedder fetch both
\* raised, and the wait returned False after the timeout
C22_Witness ==
    /\ wait.pc = "done"
    /\ wait.client
    /\ ~wait.result
    /\ wait.timeout > 0
    /\ wait.status_raised
    /\ wait.fetch_raised
    /\ ~wait.embedder
    /\ wait.t >= wait.end_time

\* the wait returned True on a complete status, the embedder not yet set
C22_WitnessTrue ==
    /\ wait.pc = "done"
    /\ wait.result
    /\ wait.read.complete
    /\ ~wait.read.embedder

\* C29: if the collection and the embedder are both set at a time before
\* the timeout elapses, the embedder set by the SDK or by the proactive
\* fetch of the loop, the wait returns True.
C29_ReadyInTimeReturnsTrue ==
    (wait.pc = "done" /\ wait.in_time) => wait.result

\* the entries of a sequence that a given thread appended: "b" asks for the
\* graph, "a" does not
RECURSIVE EntriesOf(_, _)
EntriesOf(entries, w) ==
    IF entries = <<>> THEN 0
    ELSE (IF Head(entries).enable_agentic_graph = (w = "b") THEN 1 ELSE 0)
         + EntriesOf(Tail(entries), w)

\* C24: with searches running concurrently the history holds at most 30
\* entries, every search that passed its append is recorded exactly once,
\* in the order of the appends, and what has been evicted are the oldest
\* entries.
C24_ConcurrentAppendsAreSerialized ==
    /\ Len(search_history) <= HistoryMaxLen
    /\ search_history = LastN(completed, HistoryMaxLen)
    /\ \A w \in Workers : EntriesOf(completed, w) = workers[w].recorded

\* "b" appended while "a" was between building its entry and appending it,
\* the history being full
C24_Witness ==
    /\ Len(completed) > HistoryMaxLen
    /\ workers["a"].pc = "handled"
    /\ workers["b"].pc = "appended"
    /\ search_history[HistoryMaxLen].enable_agentic_graph

\* C28: every response of get_search_history has a count equal to the
\* number of entries of its searches list.
C28_ReadIsConsistentSnapshot ==
    IsHistoryRead => response.count = Len(response.searches)

IsReceivedFrame(f) == f.id # 0

\* C26: process_frame pushes every frame it receives exactly once, in the
\* order received, whatever the memory search and the message storage do;
\* a context frame is pushed only right before the downstream text frame
\* it was made for, and in the same direction.
C26_EveryFrameForwardedOnce ==
    /\ SelectSeq(pipe.pushed, IsReceivedFrame) = pipe.received
    /\ \A j \in 1..Len(pipe.pushed) :
          pipe.pushed[j].id = 0 =>
             /\ j < Len(pipe.pushed)
             /\ pipe.pushed[j + 1].id # 0
             /\ pipe.pushed[j + 1].kind = "text"
             /\ pipe.pushed[j + 1].direction = "downstream"
             /\ pipe.pushed[j].direction = "downstream"

\* the storage raised, the search had found a memory: context, then frame
C26_Witness ==
    /\ Len(pipe.received) = 1
    /\ pipe.search = "ok"
    /\ pipe.store = "raise"
    /\ Len(pipe.pushed) = 2
    /\ pipe.pushed[1].id = 0
    /\ pipe.pushed[1].memories = <<"remote one">>
    /\ pipe.pushed[2] = pipe.received[1]

\* the search raised: the frame is forwarded alone
C26_WitnessSearchError ==
    /\ Len(pipe.received) = 1
    /\ pipe.search = "raise"
    /\ pipe.pushed = pipe.received

=============================================================================
